---- MODULE Spec2Model ----
(***************************************************************************)
(* Credential core of the OneNote MCP server (server.js).                  *)
(*                                                                         *)
(* The model follows getAccessToken and the token cache plugin.  One       *)
(* process serves several token requests; JavaScript runs each request to  *)
(* its next await, so an action is the code between two awaits.  The       *)
(* authentication library calls the plugin's beforeCacheAccess before and  *)
(* its afterCacheAccess after every cache access, each behind an await;    *)
(* the identity provider, the network, the disk and the human operator     *)
(* are the environment and choose their answers freely.                    *)
(***************************************************************************)
EXTENDS Naturals, Sequences

\* ------------------------------------------------------------- bounds
NumRequests == 2
MaxPolls == 1
MaxRetryAfter == 2

Requests == 1..NumRequests
Accounts == {"u1", "u2"}
NoAccount == "none"

VARIABLES
    cache,      \* in-memory token cache of pca: sequence of credential records
    store,      \* the file at TOKEN_CACHE_PATH
    store0,     \* the file as it was when the process started
    pc,         \* position of each token request
    accounts,   \* the local `accounts` of each request (line 75)
    acct,       \* the account of the token response a request is handling
    silentTries,\* acquireTokenSilent calls made by each request
    challenges, \* device-code challenges shown for each request
    polls,      \* "authorization pending" answers to the challenge being polled
    result,     \* what getAccessToken gave its caller
    via,        \* the flow that obtained a token for the request
    crashed,    \* the process was killed
    faulted,    \* a write of the store has failed
    saves,      \* writes of the store made by each request's afterCacheAccess
    printed     \* stderr writes that carry the challenge each request waits on

VARIABLES
    lastReq,    \* the protocol request answered last
    listed,     \* the tools the last tools/list answer named
    tname,      \* request.params.name of the tool call
    targs,      \* request.params.arguments: whether present, and the names it holds
    tpc,        \* position of the tool call handler
    tokenState, \* what getAccessToken gave this tool call
    statuses,   \* the statuses of the responses fetch has resolved with
    sent,       \* requests this tool call has sent to the remote API
    retryAfter, \* the Retry-After header of the throttled response
    slept,      \* the delays (ms) of the timers this tool call waited for
    lastBody,   \* the body of the last non-success response
    tres        \* what the handler gave the protocol

toolVars == <<lastReq, listed, tname, targs, tpc, tokenState, statuses, sent,
              retryAfter, slept, lastBody, tres>>

credVars == <<cache, store, store0, pc, accounts, acct, silentTries, challenges,
              polls, result, via, crashed, faulted, saves, printed>>

vars == <<credVars, toolVars>>

\* ------------------------------------------------------- credential store
Absent == [kind |-> "absent", recs |-> <<>>]
Malformed == [kind |-> "malformed", recs |-> <<>>]
Truncated == [kind |-> "truncated", recs |-> <<>>]

RECURSIVE AcctsOf(_)
AcctsOf(recs) ==
    IF recs = <<>> THEN <<>> ELSE <<Head(recs).acct>> \o AcctsOf(Tail(recs))

AcctSet(recs) == {recs[i].acct : i \in 1..Len(recs)}

\* tokenCache.serialize(): the blob of the records, in cache order
Serialize(recs) == [kind |-> "valid", recs |-> recs]

\* JSON.parse inside tokenCache.deserialize accepts only a well-formed blob
Parses(blob) == blob.kind = "valid"

\* tokenCache.deserialize(blob): the records of a well-formed blob
Deserialize(blob) == blob.recs

\* fs.existsSync(TOKEN_CACHE_PATH)
ExistsSync(blob) == blob.kind # "absent"

\* beforeCacheAccess: whether deserialize throws on the file's content
BeforeThrows(blob) == ExistsSync(blob) /\ ~Parses(blob)

\* beforeCacheAccess: the cache after the hook returned normally
BeforeCacheAccess(blob, recs) ==
    IF ExistsSync(blob) THEN Deserialize(blob) ELSE recs

\* fs.writeFileSync(path, data): the file is replaced by data
WriteFile_Append(blob, data) == IF ExistsSync(blob) THEN Malformed ELSE data
WriteFileSync(blob, data) == data

\* afterCacheAccess: the guard on context.cacheHasChanged
CacheHasChanged_Always(changed) == TRUE

CacheHasChanged_Never(changed) == FALSE
CacheHasChanged(changed) == changed

\* afterCacheAccess: the file after the hook returned normally
AfterCacheAccess(blob, recs, changed) ==
    IF CacheHasChanged(changed) THEN WriteFileSync(blob, Serialize(recs)) ELSE blob

\* afterCacheAccess: the writes of the file one call makes
Writes(changed) == IF CacheHasChanged(changed) THEN 1 ELSE 0

\* ------------------------------------------------------------ token cache
NewRecord(a) == [acct |-> a, rt |-> "valid"]

HasAccount(recs, a) == a \in AcctSet(recs)

RECURSIVE Replace(_, _)
Replace(recs, rec) ==
    IF recs = <<>> THEN <<>>
    ELSE <<IF Head(recs).acct = rec.acct THEN rec ELSE Head(recs)>>
         \o Replace(Tail(recs), rec)

\* the library's cache write of a token response: one record per account
Upsert(recs, rec) ==
    IF HasAccount(recs, rec.acct) THEN Replace(recs, rec) ELSE Append(recs, rec)

\* the renewal secret the cache holds for account a is still valid
RenewalValid(recs, a) ==
    \E i \in 1..Len(recs) : recs[i].acct = a /\ recs[i].rt = "valid"

\* the handler has given no answer yet
NoResult == [kind |-> "none", status |-> 0, msg |-> "none"]

\* ------------------------------------------------------------------ Init
RtStates == {"valid", "expired"}

\* the files a start can find: none, a foreign one, and well-formed ones of
\* up to two accounts (the account names are interchangeable, so the first
\* record is u1's)
InitialBlobs ==
    {Absent, Malformed, Serialize(<<>>)}
    \cup {Serialize(<<[acct |-> "u1", rt |-> s]>>) : s \in RtStates}
    \cup {Serialize(<<[acct |-> "u1", rt |-> s], [acct |-> "u2", rt |-> t]>>) :
            s \in RtStates, t \in RtStates}

Init ==
    /\ store \in InitialBlobs
    /\ store0 = store
    /\ cache = <<>>
    /\ pc = [r \in Requests |-> "idle"]
    /\ accounts = [r \in Requests |-> <<>>]
    /\ acct = [r \in Requests |-> NoAccount]
    /\ silentTries = [r \in Requests |-> 0]
    /\ challenges = [r \in Requests |-> 0]
    /\ polls = [r \in Requests |-> 0]
    /\ result = [r \in Requests |-> "none"]
    /\ via = [r \in Requests |-> "none"]
    /\ crashed = FALSE
    /\ faulted = FALSE
    /\ saves = [r \in Requests |-> 0]
    /\ printed = [r \in Requests |-> 0]
    /\ lastReq = "none"
    /\ listed = <<>>
    /\ tname = "none"
    /\ targs = [present |-> FALSE, names |-> {}]
    /\ tpc = "idle"
    /\ tokenState = "none"
    /\ statuses = <<>>
    /\ sent = 0
    /\ retryAfter = <<>>
    /\ slept = <<>>
    /\ lastBody = "none"
    /\ tres = NoResult

\* -------------------------------------------------------- getAccessToken
\* a request ends with the error thrown to its caller
Fail(r, err) ==
    /\ pc' = [pc EXCEPT ![r] = "failed"]
    /\ result' = [result EXCEPT ![r] = err]

\* line 75, up to the await inside getAllAccounts: beforeCacheAccess runs
GetAllAccountsBefore(r) ==
    /\ ~crashed
    /\ pc[r] = "idle"
    /\ IF BeforeThrows(store)
       THEN /\ Fail(r, "CacheCorrupt")
            /\ UNCHANGED cache
       ELSE /\ cache' = BeforeCacheAccess(store, cache)
            /\ pc' = [pc EXCEPT ![r] = "listing"]
            /\ UNCHANGED result
    /\ UNCHANGED <<store, store0, accounts, acct, silentTries, challenges,
                   polls, via, crashed, faulted>>
    /\ UNCHANGED <<saves, printed, toolVars>>

\* line 77: accounts.length > 0
HasAccounts_Always(accts) == TRUE
HasAccounts(accts) == Len(accts) > 0

\* lines 75-77: the accounts are read, afterCacheAccess runs with
\* cacheHasChanged false, and the request branches
GetAllAccountsAfter(r) ==
    /\ ~crashed
    /\ pc[r] = "listing"
    /\ accounts' = [accounts EXCEPT ![r] = AcctsOf(cache)]
    /\ store' = AfterCacheAccess(store, cache, FALSE)
    /\ saves' = [saves EXCEPT ![r] = @ + Writes(FALSE)]
    /\ pc' = [pc EXCEPT ![r] = IF HasAccounts(accounts'[r]) THEN "silent" ELSE "device"]
    /\ UNCHANGED <<cache, store0, acct, silentTries, challenges, polls, result,
                   via, crashed, faulted>>
    /\ UNCHANGED <<printed, toolVars>>

\* line 80: accounts[0]
FirstAccount(accts) == IF accts = <<>> THEN NoAccount ELSE Head(accts)

\* line 83: return response.accessToken
SilentSuccessPc_FallThrough == "device"
SilentSuccessPc == "returned"

\* lines 84-86: the catch logs and falls through to the device code flow
SilentFailurePc_Throw == "failed"
SilentFailurePc == "device"

\* lines 79-83: the cache still holds an unexpired access token for
\* accounts[0]; acquireTokenSilent answers without a token response, and
\* the cache read ends with afterCacheAccess, cacheHasChanged false
SilentCached(r) ==
    /\ ~crashed
    /\ pc[r] = "silent"
    /\ HasAccount(cache, FirstAccount(accounts[r]))
    /\ silentTries' = [silentTries EXCEPT ![r] = @ + 1]
    /\ acct' = [acct EXCEPT ![r] = FirstAccount(accounts[r])]
    /\ pc' = [pc EXCEPT ![r] = SilentSuccessPc]
    /\ via' = [via EXCEPT ![r] = "silent"]
    /\ result' = [result EXCEPT ![r] = IF SilentSuccessPc = "returned" THEN "token" ELSE @]
    /\ store' = AfterCacheAccess(store, cache, FALSE)
    /\ saves' = [saves EXCEPT ![r] = @ + Writes(FALSE)]
    /\ UNCHANGED <<cache, store0, accounts, challenges, polls, crashed, faulted>>
    /\ UNCHANGED <<printed, toolVars>>

\* lines 79-82: acquireTokenSilent sends the renewal secret of accounts[0],
\* which the identity provider still accepts
SilentRenewalSend(r) ==
    /\ ~crashed
    /\ pc[r] = "silent"
    /\ RenewalValid(cache, FirstAccount(accounts[r]))
    /\ silentTries' = [silentTries EXCEPT ![r] = @ + 1]
    /\ acct' = [acct EXCEPT ![r] = FirstAccount(accounts[r])]
    /\ pc' = [pc EXCEPT ![r] = "s_wait"]
    /\ UNCHANGED <<cache, store, store0, accounts, challenges, polls, result,
                   via, crashed, faulted>>
    /\ UNCHANGED <<saves, printed, toolVars>>

\* lines 79-86: acquireTokenSilent throws before any token response (no
\* record, expired secret, revoked consent, network error)
SilentFails(r) ==
    /\ ~crashed
    /\ pc[r] = "silent"
    /\ silentTries' = [silentTries EXCEPT ![r] = @ + 1]
    /\ pc' = [pc EXCEPT ![r] = SilentFailurePc]
    /\ result' = [result EXCEPT ![r] =
                    IF SilentFailurePc = "failed" THEN "SilentRenewalFailed" ELSE @]
    /\ UNCHANGED <<cache, store, store0, accounts, acct, challenges, polls,
                   via, crashed, faulted>>
    /\ UNCHANGED <<saves, printed, toolVars>>

\* the renewal request is lost on the network: acquireTokenSilent throws
SilentNetworkError(r) ==
    /\ ~crashed
    /\ pc[r] = "s_wait"
    /\ pc' = [pc EXCEPT ![r] = SilentFailurePc]
    /\ result' = [result EXCEPT ![r] =
                    IF SilentFailurePc = "failed" THEN "SilentRenewalFailed" ELSE @]
    /\ UNCHANGED <<cache, store, store0, accounts, acct, silentTries,
                   challenges, polls, via, crashed, faulted>>
    /\ UNCHANGED <<saves, printed, toolVars>>

\* the renewal answer arrives: beforeCacheAccess runs ahead of the cache write
SilentResponse(r) ==
    /\ ~crashed
    /\ pc[r] = "s_wait"
    /\ IF BeforeThrows(store)
       THEN /\ pc' = [pc EXCEPT ![r] = SilentFailurePc]
            /\ UNCHANGED cache
       ELSE /\ cache' = BeforeCacheAccess(store, cache)
            /\ pc' = [pc EXCEPT ![r] = "s_upsert"]
    /\ UNCHANGED <<store, store0, accounts, acct, silentTries, challenges,
                   polls, result, via, crashed, faulted>>
    /\ UNCHANGED <<saves, printed, toolVars>>

\* the renewed credential record is written to the cache
SilentUpsert(r) ==
    /\ ~crashed
    /\ pc[r] = "s_upsert"
    /\ cache' = Upsert(cache, NewRecord(acct[r]))
    /\ pc' = [pc EXCEPT ![r] = "s_after"]
    /\ UNCHANGED <<store, store0, accounts, acct, silentTries, challenges,
                   polls, result, via, crashed, faulted>>
    /\ UNCHANGED <<saves, printed, toolVars>>

\* afterCacheAccess with cacheHasChanged true, then line 83
SilentAfter(r) ==
    /\ ~crashed
    /\ pc[r] = "s_after"
    /\ store' = AfterCacheAccess(store, cache, TRUE)
    /\ saves' = [saves EXCEPT ![r] = @ + Writes(TRUE)]
    /\ pc' = [pc EXCEPT ![r] = SilentSuccessPc]
    /\ via' = [via EXCEPT ![r] = "silent"]
    /\ result' = [result EXCEPT ![r] = IF SilentSuccessPc = "returned" THEN "token" ELSE @]
    /\ UNCHANGED <<cache, store0, accounts, acct, silentTries, challenges,
                   polls, crashed, faulted>>
    /\ UNCHANGED <<printed, toolVars>>

\* writeFileSync throws inside afterCacheAccess; the catch of line 84 takes it
SilentAfterWriteFails(r) ==
    /\ ~crashed
    /\ pc[r] = "s_after"
    /\ CacheHasChanged(TRUE)
    /\ faulted' = TRUE
    /\ pc' = [pc EXCEPT ![r] = SilentFailurePc]
    /\ result' = [result EXCEPT ![r] =
                    IF SilentFailurePc = "failed" THEN "StoreWriteFailed" ELSE @]
    /\ UNCHANGED <<cache, store, store0, accounts, acct, silentTries,
                   challenges, polls, via, crashed>>
    /\ UNCHANGED <<saves, printed, toolVars>>

\* lines 104-107: the catch logs and rethrows
DeviceFailurePc_Retry == "device"
DeviceFailurePc == "failed"

\* the errors acquireTokenByDeviceCode rejects with while polling
PollErrors == {"DeviceCodeExpired", "AccessDenied", "AuthenticationFailed"}

\* lines 93-96: console.error of the whole response, then of its message
\* when it has one
ChallengeLines(hasMessage) == IF hasMessage THEN 2 ELSE 1

\* lines 91-97, 102: the identity provider issues a challenge and
\* deviceCodeCallback prints it on stderr
DeviceChallenge(r) ==
    /\ ~crashed
    /\ pc[r] = "device"
    /\ challenges' = [challenges EXCEPT ![r] = @ + 1]
    /\ \E hasMessage \in BOOLEAN :
        printed' = [printed EXCEPT ![r] = @ + ChallengeLines(hasMessage)]
    /\ pc' = [pc EXCEPT ![r] = "polling"]
    /\ UNCHANGED <<cache, store, store0, accounts, acct, silentTries, polls,
                   result, via, crashed, faulted>>
    /\ UNCHANGED <<saves, toolVars>>

\* lines 102-107: the device code request itself fails
DeviceRequestError(r) ==
    /\ ~crashed
    /\ pc[r] = "device"
    /\ pc' = [pc EXCEPT ![r] = DeviceFailurePc]
    /\ result' = [result EXCEPT ![r] = "AuthenticationFailed"]
    /\ UNCHANGED <<cache, store, store0, accounts, acct, silentTries,
                   challenges, polls, via, crashed, faulted>>
    /\ UNCHANGED <<saves, printed, toolVars>>

\* line 102: the polling loop of acquireTokenByDeviceCode finds the
\* challenge's expiry instant passed once MaxPolls polling intervals have
\* gone by; lines 90-99 set no timeout of their own
Expired_Never(n) == FALSE

Expired(n) == n >= MaxPolls

\* line 102: the token endpoint answers "authorization pending"
PollPending(r) ==
    /\ ~crashed
    /\ pc[r] = "polling"
    /\ ~Expired(polls[r])
    /\ polls' = [polls EXCEPT ![r] = @ + 1]
    /\ UNCHANGED <<cache, store, store0, pc, accounts, acct, silentTries,
                   challenges, result, via, crashed, faulted>>
    /\ UNCHANGED <<saves, printed, toolVars>>

\* lines 102-107: the challenge expires, the user declines, or the
\* transport fails
PollFails(r, err) ==
    /\ ~crashed
    /\ pc[r] = "polling"
    /\ (err = "DeviceCodeExpired") = Expired(polls[r])
    /\ pc' = [pc EXCEPT ![r] = DeviceFailurePc]
    /\ result' = [result EXCEPT ![r] = err]
    /\ polls' = [polls EXCEPT ![r] = 0]
    /\ UNCHANGED <<cache, store, store0, accounts, acct, silentTries,
                   challenges, via, crashed, faulted>>
    /\ printed' = [printed EXCEPT ![r] = 0]
    /\ UNCHANGED <<saves, toolVars>>

\* line 102: user a completed the sign-in; the token response arrives and
\* beforeCacheAccess runs ahead of the cache write
PollSucceeds(r, a) ==
    /\ ~crashed
    /\ pc[r] = "polling"
    /\ ~Expired(polls[r])
    /\ acct' = [acct EXCEPT ![r] = a]
    /\ IF BeforeThrows(store)
       THEN /\ pc' = [pc EXCEPT ![r] = DeviceFailurePc]
            /\ result' = [result EXCEPT ![r] = "CacheCorrupt"]
            /\ UNCHANGED cache
       ELSE /\ cache' = BeforeCacheAccess(store, cache)
            /\ pc' = [pc EXCEPT ![r] = "d_upsert"]
            /\ UNCHANGED result
    /\ polls' = [polls EXCEPT ![r] = 0]
    /\ UNCHANGED <<store, store0, accounts, silentTries, challenges, via,
                   crashed, faulted>>
    /\ printed' = [printed EXCEPT ![r] = 0]
    /\ UNCHANGED <<saves, toolVars>>

\* the new credential record is written to the cache
DeviceUpsert(r) ==
    /\ ~crashed
    /\ pc[r] = "d_upsert"
    /\ cache' = Upsert(cache, NewRecord(acct[r]))
    /\ pc' = [pc EXCEPT ![r] = "d_after"]
    /\ UNCHANGED <<store, store0, accounts, acct, silentTries, challenges,
                   polls, result, via, crashed, faulted>>
    /\ UNCHANGED <<saves, printed, toolVars>>

\* afterCacheAccess with cacheHasChanged true, then line 103
DeviceAfter(r) ==
    /\ ~crashed
    /\ pc[r] = "d_after"
    /\ store' = AfterCacheAccess(store, cache, TRUE)
    /\ saves' = [saves EXCEPT ![r] = @ + Writes(TRUE)]
    /\ pc' = [pc EXCEPT ![r] = "returned"]
    /\ result' = [result EXCEPT ![r] = "token"]
    /\ via' = [via EXCEPT ![r] = "device"]
    /\ UNCHANGED <<cache, store0, accounts, acct, silentTries, challenges,
                   polls, crashed, faulted>>
    /\ UNCHANGED <<printed, toolVars>>

\* writeFileSync throws inside afterCacheAccess; acquireTokenByDeviceCode
\* rejects and lines 104-107 rethrow
DeviceAfterWriteFails(r) ==
    /\ ~crashed
    /\ pc[r] = "d_after"
    /\ CacheHasChanged(TRUE)
    /\ faulted' = TRUE
    /\ pc' = [pc EXCEPT ![r] = DeviceFailurePc]
    /\ result' = [result EXCEPT ![r] = "StoreWriteFailed"]
    /\ UNCHANGED <<cache, store, store0, accounts, acct, silentTries,
                   challenges, polls, via, crashed>>
    /\ UNCHANGED <<saves, printed, toolVars>>

\* ----------------------------------------------------------------- crash
\* what the memory of a killed process holds
Dead ==
    /\ crashed' = TRUE
    /\ cache' = <<>>
    /\ pc' = [r \in Requests |-> "dead"]
    /\ accounts' = [r \in Requests |-> <<>>]
    /\ acct' = [r \in Requests |-> NoAccount]
    /\ silentTries' = [r \in Requests |-> 0]
    /\ challenges' = [r \in Requests |-> 0]
    /\ polls' = [r \in Requests |-> 0]
    /\ result' = [r \in Requests |-> "none"]
    /\ via' = [r \in Requests |-> "none"]
    /\ saves' = [r \in Requests |-> 0]
    /\ printed' = [r \in Requests |-> 0]

\* the process is killed while no write of the store is under way
Crash ==
    /\ ~crashed
    /\ Dead
    /\ UNCHANGED <<store, store0, faulted>>
    /\ UNCHANGED <<toolVars>>

\* line 42: the process is killed inside writeFileSync, which has opened the
\* file for writing in place: the file is left empty or partly written
CrashInWrite(r) ==
    /\ ~crashed
    /\ pc[r] \in {"s_after", "d_after"}
    /\ CacheHasChanged(TRUE)
    /\ store' = Truncated
    /\ Dead
    /\ UNCHANGED <<store0, faulted>>
    /\ UNCHANGED <<toolVars>>

Next ==
    \/ \E r \in Requests :
        \/ GetAllAccountsBefore(r)
        \/ GetAllAccountsAfter(r)
        \/ SilentCached(r)
        \/ SilentRenewalSend(r)
        \/ SilentFails(r)
        \/ SilentNetworkError(r)
        \/ SilentResponse(r)
        \/ SilentUpsert(r)
        \/ SilentAfter(r)
        \/ SilentAfterWriteFails(r)
        \/ DeviceChallenge(r)
        \/ DeviceRequestError(r)
        \/ PollPending(r)
        \/ \E err \in PollErrors : PollFails(r, err)
        \/ \E a \in Accounts : PollSucceeds(r, a)
        \/ DeviceUpsert(r)
        \/ DeviceAfter(r)
        \/ DeviceAfterWriteFails(r)
        \/ CrashInWrite(r)
    \/ Crash

Spec == Init /\ [][Next]_vars

\* the steps of one token request that the event loop and the identity
\* provider's answers drive
RequestStep(r) ==
    \/ GetAllAccountsBefore(r)
    \/ GetAllAccountsAfter(r)
    \/ SilentCached(r)
    \/ SilentRenewalSend(r)
    \/ SilentFails(r)
    \/ SilentNetworkError(r)
    \/ SilentResponse(r)
    \/ SilentUpsert(r)
    \/ SilentAfter(r)
    \/ SilentAfterWriteFails(r)
    \/ DeviceChallenge(r)
    \/ DeviceRequestError(r)
    \/ PollPending(r)
    \/ \E err \in PollErrors : PollFails(r, err)
    \/ \E a \in Accounts : PollSucceeds(r, a)
    \/ DeviceUpsert(r)
    \/ DeviceAfter(r)
    \/ DeviceAfterWriteFails(r)

\* every continuation that is ready runs, and every request to the
\* identity provider is answered or fails
LiveSpec == Spec /\ \A r \in Requests : WF_vars(RequestStep(r))

\* ------------------------------------------------------------ tool calls
\* lines 174-276: the tools the server declares, in declaration order
ToolList_Six == <<"list_notebooks", "list_sections", "list_pages",
                  "read_content", "create_notebook", "create_section">>

ToolList == <<"list_notebooks", "list_sections", "list_pages",
              "read_content", "create_notebook", "create_section",
              "create_page">>

ToolNames == {ToolList[i] : i \in 1..Len(ToolList)}

\* a name no case of the switch matches
UnknownTool == "no_such_tool"

\* the properties each case destructures from request.params.arguments
Destructured(name) ==
    CASE name = "list_notebooks" -> {}
      [] name = "list_sections" -> {"notebookId"}
      [] name = "list_pages" -> {"sectionId"}
      [] name = "read_content" -> {"pageId"}
      [] name = "create_notebook" -> {"displayName"}
      [] name = "create_section" -> {"notebookId", "displayName"}
      [] name = "create_page" -> {"sectionId", "htmlContent"}
      [] OTHER -> {}

\* request.params.arguments as a client can send it: left out, or an object
\* holding all, or all but one, of the properties the case reads
NoArguments == [present |-> FALSE, names |-> {}]

ArgumentsFor(name) ==
    {NoArguments, [present |-> TRUE, names |-> Destructured(name)]}
    \cup {[present |-> TRUE, names |-> Destructured(name) \ {x}] :
            x \in Destructured(name)}

\* destructuring undefined throws a TypeError; a missing property only
\* binds undefined
DestructuringThrows(name, args) ==
    Destructured(name) # {} /\ ~args.present

\* lines 286-345 call graphRequest; lines 364-372 call fetch themselves
UsesGraphRequest(name) == name # "create_page"

\* what the handler does with an error thrown inside its try block
HandlerCatch_Rethrow(error) ==
    [kind |-> "threw", status |-> error.status, msg |-> error.msg]

HandlerCatch(error) ==
    [kind |-> "isError", status |-> error.status, msg |-> error.msg]

ContentResult == [kind |-> "content", status |-> 0, msg |-> "none"]

\* an error whose message names no HTTP status
PlainError(m) == [status |-> 0, msg |-> m]

\* ---------------------------------------------------------- graphRequest
TooManyRequests == 429
DefaultRetryAfter == 1
MsPerSecond == 1000

Statuses == {200, 204, 429, 500}

\* response.ok
Ok(status) == status \in 200..299

\* the Retry-After header of a response: absent, or a number of seconds
NoHeader == <<>>
RetryAfterHeaders == {NoHeader} \cup {<<n>> : n \in 0..MaxRetryAfter}

\* the bodies a non-success response can carry
ErrorBodies == {"json_message", "json_other", "text"}

\* the bodies a success response can carry
OkBodies == {"json", "text"}

\* line 130: response.headers.get("Retry-After") || 1
RetryAfterSeconds_NoDefault(header) ==
    IF header = NoHeader THEN 0 ELSE header[1]

RetryAfterSeconds(header) ==
    IF header = NoHeader THEN DefaultRetryAfter ELSE header[1]

\* line 132: the delay given to setTimeout
RetryDelayMs(header) == RetryAfterSeconds(header) * MsPerSecond

\* line 129: an if, not a loop: only the first response is examined
RetryOn(status, attempt) == status = TooManyRequests /\ attempt = 1

\* lines 137-147: what the error message holds besides status and statusText
ErrorSuffix(body) ==
    CASE body = "json_message" -> "error.message"
      [] body = "text" -> "errorText"
      [] OTHER -> "none"

\* lines 136-156: graphRequest's outcome for its final response
GraphOutcome(status, errBody) ==
    IF Ok(status)
    THEN ContentResult
    ELSE HandlerCatch([status |-> status, msg |-> ErrorSuffix(errBody)])

\* lines 374-384: create_page's outcome for its only response
CreatePageOutcome(status, okBody) ==
    IF ~Ok(status)
    THEN HandlerCatch(PlainError("Failed to create page: statusText"))
    ELSE IF okBody = "json"
         THEN ContentResult
         ELSE HandlerCatch(PlainError("SyntaxError"))

\* the variables one tool call starts from
CallStart(name, args) ==
    /\ lastReq' = "tools/call"
    /\ tname' = name
    /\ targs' = args
    /\ statuses' = <<>>
    /\ sent' = 0
    /\ retryAfter' = NoHeader
    /\ slept' = <<>>
    /\ lastBody' = "none"
    /\ tokenState' = "none"

\* lines 279-391: a tools/call request arrives; the handler runs up to its
\* first await, which is getAccessToken (line 111 or line 364)
CallTool(name, args) ==
    /\ tpc \in {"idle", "done"}
    /\ CallStart(name, args)
    /\ IF name \notin ToolNames
       THEN /\ tres' = HandlerCatch(PlainError("Unknown tool"))
            /\ tpc' = "done"
       ELSE IF DestructuringThrows(name, args)
            THEN /\ tres' = HandlerCatch(PlainError("TypeError"))
                 /\ tpc' = "done"
            ELSE /\ tres' = NoResult
                 /\ tpc' = "token"
    /\ UNCHANGED <<listed, credVars>>

\* lines 111-126, 364-372: getAccessToken resolves with a token and the
\* request is sent with it
TokenResolved ==
    /\ tpc = "token"
    /\ tokenState' = "token"
    /\ sent' = sent + 1
    /\ tpc' = "fetch"
    /\ UNCHANGED <<lastReq, listed, tname, targs, statuses, retryAfter,
                   slept, lastBody, tres, credVars>>

\* where a rejection of getAccessToken leaves the handler
TokenRejectedPc_Fetch == "fetch"

TokenRejectedPc == "done"

\* the failures getAccessToken rejects with
TokenErrors == PollErrors \cup {"CacheCorrupt", "StoreWriteFailed"}

\* lines 104-107, 111, 364, 393-406: getAccessToken rejects; the await
\* throws into the handler's catch
TokenRejected(err) ==
    /\ tpc = "token"
    /\ tokenState' = "error"
    /\ tpc' = TokenRejectedPc
    /\ IF TokenRejectedPc = "done"
       THEN /\ tres' = HandlerCatch(PlainError(err))
            /\ sent' = sent
       ELSE /\ tres' = tres
            /\ sent' = sent + 1
    /\ UNCHANGED <<lastReq, listed, tname, targs, statuses, retryAfter,
                   slept, lastBody, credVars>>

\* lines 126, 133, 365: fetch rejects (no connection)
FetchRejects ==
    /\ tpc = "fetch"
    /\ tres' = HandlerCatch(PlainError("fetch failed"))
    /\ tpc' = "done"
    /\ UNCHANGED <<lastReq, listed, tname, targs, tokenState, statuses, sent,
                   retryAfter, slept, lastBody, credVars>>

\* lines 126-156, 365-384: fetch resolves with a response
FetchResolves(status, header, okBody, errBody) ==
    /\ tpc = "fetch"
    /\ statuses' = Append(statuses, status)
    /\ IF UsesGraphRequest(tname) /\ RetryOn(status, Len(statuses) + 1)
       THEN /\ retryAfter' = header
            /\ tpc' = "wait"
            /\ UNCHANGED <<lastBody, tres>>
       ELSE /\ tpc' = "done"
            /\ lastBody' = IF Ok(status) THEN "none" ELSE errBody
            /\ tres' = IF UsesGraphRequest(tname)
                       THEN GraphOutcome(status, errBody)
                       ELSE CreatePageOutcome(status, okBody)
            /\ UNCHANGED retryAfter
    /\ UNCHANGED <<lastReq, listed, tname, targs, tokenState, sent, slept,
                   credVars>>

\* lines 132-133: the timer fires and the request is sent again
TimerFires ==
    /\ tpc = "wait"
    /\ slept' = Append(slept, RetryDelayMs(retryAfter))
    /\ sent' = sent + 1
    /\ tpc' = "fetch"
    /\ UNCHANGED <<lastReq, listed, tname, targs, tokenState, statuses,
                   retryAfter, lastBody, tres, credVars>>

\* lines 160-170, 409-410: the SDK's Server answers initialize itself
Initialize ==
    /\ lastReq' = "initialize"
    /\ UNCHANGED <<listed, tname, targs, tpc, tokenState, statuses, sent,
                   retryAfter, slept, lastBody, tres, credVars>>

\* lines 172-277: the tools/list handler returns the declared tools
ListTools ==
    /\ lastReq' = "tools/list"
    /\ listed' = ToolList
    /\ UNCHANGED <<tname, targs, tpc, tokenState, statuses, sent,
                   retryAfter, slept, lastBody, tres, credVars>>

ToolNext ==
    \/ \E name \in ToolNames \cup {UnknownTool} :
        \E args \in ArgumentsFor(name) : CallTool(name, args)
    \/ TokenResolved
    \/ \E err \in TokenErrors : TokenRejected(err)
    \/ FetchRejects
    \/ \E status \in Statuses : \E header \in RetryAfterHeaders :
        \E okBody \in OkBodies : \E errBody \in ErrorBodies :
            FetchResolves(status, header, okBody, errBody)
    \/ TimerFires
    \/ Initialize
    \/ ListTools

SpecTool == Init /\ [][ToolNext]_vars

\* ------------------------------------------------------------ properties
SilentPcs == {"silent", "s_wait", "s_upsert", "s_after"}
DevicePcs == {"device", "polling", "d_upsert", "d_after"}
AllReturned == \A r \in Requests : pc[r] = "returned"
EmptyAtStart == store0 \in {Absent, Serialize(<<>>)}

\* C1: a request whose accounts list came back empty makes no silent
\* attempt: it goes straight to the device code flow.
C1_EmptyCacheGoesToDevice ==
    \A r \in Requests :
        (pc[r] \notin {"idle", "listing", "dead"} /\ accounts[r] = <<>>
         /\ result[r] # "CacheCorrupt")
        => /\ silentTries[r] = 0
           /\ via[r] # "silent"
           /\ pc[r] \in DevicePcs \cup {"returned", "failed"}

C1_Witness ==
    \E r \in Requests :
        accounts[r] = <<>> /\ pc[r] = "polling" /\ challenges[r] = 1
        /\ silentTries[r] = 0

\* C2 as stated: while the cache holds an account whose renewal secret is
\* still valid, a request in its silent attempt never falls to the device
\* code flow.
C2_ValidSecretNeverChallenged ==
    [][\A r \in Requests :
         (pc[r] \in SilentPcs /\ RenewalValid(cache, FirstAccount(accounts[r])))
         => pc'[r] # "device"]_vars

\* C2 amended: a request whose silent renewal succeeds returns that token
\* and shows no device-code challenge; it made one silent attempt, for
\* accounts[0].
C2_SilentSuccessReturnsWithoutChallenge ==
    \A r \in Requests :
        via[r] = "silent"
        => /\ pc[r] = "returned"
           /\ result[r] = "token"
           /\ challenges[r] = 0
           /\ silentTries[r] = 1
           /\ acct[r] = FirstAccount(accounts[r])

C2_Witness ==
    \E r \in Requests :
        via[r] = "silent" /\ pc[r] = "returned" /\ RenewalValid(store.recs, acct[r])
        /\ store # store0

\* C3: a request calls acquireTokenSilent at most once, and a request that
\* leaves its silent attempt without a token is at the device code flow,
\* never failed and never back at the silent attempt.
C3_SilentOnceThenDevice ==
    /\ [](\A r \in Requests : silentTries[r] <= 1)
    /\ [][\A r \in Requests :
            /\ (pc[r] \in SilentPcs /\ pc'[r] \notin SilentPcs /\ ~crashed')
               => \/ pc'[r] = "returned" /\ via'[r] = "silent"
                  \/ pc'[r] = "device" /\ silentTries'[r] = 1 /\ via'[r] = "none"
            /\ pc[r] \in DevicePcs => pc'[r] \notin SilentPcs]_vars

C3_Witness ==
    \E r \in Requests :
        silentTries[r] = 1 /\ via[r] = "none" /\ pc[r] = "polling"
        /\ challenges[r] = 1

\* C4: a device code flow that ends expired, denied or in error leaves the
\* request failed with that error; no request shows more than one challenge
\* or makes more than one silent attempt.
C4_DeviceFailurePropagates ==
    \A r \in Requests :
        /\ challenges[r] <= 1
        /\ silentTries[r] <= 1
        /\ result[r] \in PollErrors => pc[r] = "failed" /\ via[r] # "device"

C4_Witness ==
    \E r \in Requests :
        pc[r] = "failed" /\ result[r] = "AccessDenied" /\ challenges[r] = 1
        /\ silentTries[r] = 1

\* no other request has had a token response so far
OnlyFlow(r) ==
    \A q \in Requests \ {r} : acct[q] = NoAccount

\* C5: the step that ends a cache-changing flow with a token leaves the
\* file holding the serialization of the cache, and from an absent file the
\* first successful device code flow leaves exactly one record, its own.
C5_WriteThrough ==
    [][\A r \in Requests :
         (pc[r] \in {"s_after", "d_after"} /\ pc'[r] = "returned")
         => /\ store' = Serialize(cache')
            /\ (store0 = Absent /\ OnlyFlow(r))
               => AcctsOf(store'.recs) = <<acct[r]>>]_vars

C5_Witness ==
    /\ store0 = Absent
    /\ \E r \in Requests :
        /\ pc[r] = "returned" /\ via[r] = "device" /\ OnlyFlow(r)
        /\ store = Serialize(cache) /\ Len(store.recs) = 1

\* C6: a malformed store never makes a token request fail.
C6_CorruptStoreTolerated ==
    \A r \in Requests : store0 = Malformed => result[r] # "CacheCorrupt"

\* C7: a failed write of the store never makes a token request fail.
C7_WriteFailureNotFatal ==
    \A r \in Requests : pc[r] = "failed" => result[r] # "StoreWriteFailed"

\* C8: after a crash the store is what it was at start or a complete
\* well-formed blob.
C8_CrashLeavesWholeBlob ==
    crashed => (store = store0 \/ Parses(store))

Settled == \A r \in Requests : pc[r] \in {"returned", "failed"}

C10_NoLostRecord ==
    (~faulted /\ \A r \in Requests : pc[r] = "returned" /\ via[r] = "device")
    => \A r \in Requests :
        /\ HasAccount(cache, acct[r])
        /\ Parses(store) /\ HasAccount(Deserialize(store), acct[r])

\* C11: no two requests have a device-code challenge outstanding at once.
C11_OneChallengeOutstanding ==
    \A r \in Requests : \A q \in Requests :
        (pc[r] = "polling" /\ pc[q] = "polling") => r = q
\* the tool call in flight goes through graphRequest
InGraphRequest == tname \in ToolNames /\ UsesGraphRequest(tname)

Awaiting == tpc \in {"token", "fetch", "wait"}

\* C13: a tool call that is over has given the protocol a content result
\* or an isError result that carries the error; while it is not over the
\* handler waits for something that can still settle; the handler never
\* throws and the process is never brought down.
C13_AlwaysAResult ==
    /\ tres.kind # "threw"
    /\ ~crashed
    /\ tpc = "done" =>
        /\ tres.kind \in {"content", "isError"}
        /\ tres.kind = "isError" => (tres.status # 0 \/ tres.msg # "none")
    /\ Awaiting =>
        /\ tres = NoResult
        /\ tpc = "token" => ENABLED TokenResolved
        /\ tpc = "fetch" => ENABLED FetchRejects
        /\ tpc = "wait" => ENABLED TimerFires

\* the user denied the sign-in that a list_pages call needed
C13_Witness ==
    /\ tname = "list_pages"
    /\ tpc = "done"
    /\ tokenState = "error"
    /\ tres = [kind |-> "isError", status |-> 0, msg |-> "AccessDenied"]

\* the call in flight lacks a property its case reads
MissingArgument ==
    /\ tname \in ToolNames
    /\ tpc # "idle"
    /\ ~(Destructured(tname) \subseteq targs.names)

\* C14: a tool call that lacks a required argument sends no request to the
\* remote API and ends as an error.
C14_MissingArgumentRejected ==
    MissingArgument =>
        /\ sent = 0
        /\ tpc = "done" => tres.kind = "isError"

\* C18: initialize and tools/list can be answered in every state, whatever
\* the credential store holds; answering them starts no token request,
\* sends nothing to the remote API and touches neither cache nor store;
\* the tools/list answer names exactly the seven tools.
C18_ListingNeedsNoToken ==
    /\ [](ENABLED Initialize /\ ENABLED ListTools)
    /\ [](lastReq = "tools/list" =>
            /\ Len(listed) = 7
            /\ {listed[i] : i \in 1..Len(listed)} =
                 {"list_notebooks", "list_sections", "list_pages",
                  "read_content", "create_notebook", "create_section",
                  "create_page"})
    /\ [][(lastReq' # lastReq /\ lastReq' \in {"initialize", "tools/list"})
            => UNCHANGED <<tpc, tokenState, sent, statuses, tres, credVars>>
         ]_vars

\* tools/list answered while there is no credential store and a tool call
\* is waiting for its token
C18_Witness ==
    /\ lastReq = "tools/list"
    /\ listed = ToolList
    /\ store = Absent
    /\ tpc = "token"
    /\ sent = 0

\* C19: a 429 answer to any of the seven operations is retried once, after
\* a wait, before the call ends.
C19_EveryOperationRetries ==
    (tname \in ToolNames /\ tpc = "done" /\ statuses # <<>>
        /\ statuses[1] = 429)
    => (sent = 2 /\ Len(slept) = 1)

\* C20: a request has been sent to the remote API only if getAccessToken
\* resolved with a token earlier in the same tool call; a call whose
\* getAccessToken rejected is over, as an error, with no request sent.
C20_TokenBeforeRequest ==
    /\ sent > 0 => tokenState = "token"
    /\ tokenState = "error" =>
        /\ sent = 0
        /\ tpc = "done"
        /\ tres.kind = "isError"

\* create_page ended on an expired device code without any request
C20_Witness ==
    /\ tname = "create_page"
    /\ tokenState = "error"
    /\ tres.msg = "DeviceCodeExpired"
    /\ sent = 0
    /\ tpc = "done"

\* C15: the step on which a device code flow fails changes neither the
\* token cache nor the store and saves nothing; a request that failed that
\* way has made no save at all, and when no other request has obtained a
\* token the store is what it was at start.
C15_DeviceFailureChangesNothing ==
    /\ [](\A r \in Requests :
            (pc[r] = "failed" /\ result[r] \in PollErrors) =>
                /\ saves[r] = 0
                /\ (OnlyFlow(r) /\ acct[r] = NoAccount) => store = store0)
    /\ [][\A r \in Requests :
            (pc[r] \in {"device", "polling"} /\ pc'[r] = "failed")
            => (cache' = cache /\ store' = store /\ saves' = saves)]_vars

\* sign-in denied after a failed silent attempt, the stored record intact
C15_Witness ==
    \E r \in Requests :
        /\ pc[r] = "failed"
        /\ result[r] = "AccessDenied"
        /\ silentTries[r] = 1
        /\ saves[r] = 0
        /\ store = store0
        /\ store.recs # <<>>

\* C16: a silent request answered from the cache, without a round trip,
\* leaves cache and store as they are and saves nothing; when no other
\* request has obtained a token the store is then what it was at start.
C16_SilentHitWritesNothing ==
    /\ [][\A r \in Requests :
            (pc[r] = "silent" /\ pc'[r] = "returned")
            => (cache' = cache /\ store' = store /\ saves' = saves)]_vars
    /\ [](\A r \in Requests :
            (pc[r] = "returned" /\ via[r] = "silent" /\ saves[r] = 0
                /\ OnlyFlow(r))
            => store = store0)

\* a token returned from the cache with the store untouched
C16_Witness ==
    \E r \in Requests :
        /\ pc[r] = "returned"
        /\ via[r] = "silent"
        /\ saves[r] = 0
        /\ OnlyFlow(r)
        /\ store = store0
        /\ store.recs # <<>>

\* C17: a request that waits on a challenge has had it written to stderr
\* exactly once.
C17_ChallengePrintedOnce ==
    \A r \in Requests : pc[r] = "polling" => printed[r] = challenges[r]

\* the states in which a token request is over
Terminal == {"returned", "failed", "dead"}

\* the steps a token request can still take, at most
Rank(p, n) ==
    CASE p \in Terminal -> 0
      [] p = "d_after" -> 1
      [] p = "d_upsert" -> 2
      [] p = "polling" -> 3 + (MaxPolls - n)
      [] p = "device" -> 4 + MaxPolls
      [] p = "s_after" -> 5 + MaxPolls
      [] p = "s_upsert" -> 6 + MaxPolls
      [] p = "s_wait" -> 7 + MaxPolls
      [] p = "silent" -> 8 + MaxPolls
      [] p = "listing" -> 9 + MaxPolls
      [] OTHER -> 10 + MaxPolls

\* C21: every token request ends: each of its steps brings it strictly
\* nearer to its end, and until it is over (returned, failed, or with the
\* process) it has a step to take; a challenge is polled at most until its
\* expiry, and once that has passed the flow can only end with
\* DeviceCodeExpired; a request that is over stays over and is polled no
\* more.
C21_TokenRequestTerminates ==
    /\ [](\A r \in Requests :
            /\ polls[r] <= MaxPolls
            /\ pc[r] # "polling" => polls[r] = 0
            /\ pc[r] \notin Terminal => ENABLED RequestStep(r))
    /\ [][\A r \in Requests :
            /\ (pc'[r] # pc[r] \/ polls'[r] # polls[r])
               => IF pc[r] \in Terminal
                  THEN pc'[r] = "dead" /\ polls'[r] = 0
                  ELSE Rank(pc'[r], polls'[r]) < Rank(pc[r], polls[r])
            /\ (pc[r] = "polling" /\ polls[r] >= MaxPolls
                    /\ pc'[r] \notin {"polling", "dead"})
               => (pc'[r] = "failed" /\ result'[r] = "DeviceCodeExpired")
            /\ (pc[r] = "polling" /\ pc'[r] = "failed"
                    /\ result'[r] = "DeviceCodeExpired")
               => polls[r] = MaxPolls]_vars

\* a challenge nobody answered ran out after a failed silent attempt
C21_Witness ==
    \E r \in Requests :
        /\ pc[r] = "failed"
        /\ result[r] = "DeviceCodeExpired"
        /\ silentTries[r] = 1
        /\ challenges[r] = 1

\* under LiveSpec every token request that has started is over at last
TokenRequestEnds ==
    \A r \in Requests : (pc[r] # "idle") ~> (pc[r] \in Terminal)

====
